---- MODULE Spec2Model ----
(***************************************************************************)
(* The monitor loop of the Streamlit dashboard (src/app.py): the session   *)
(* state (monitoring_pids, update_interval, history, process_list), the    *)
(* two button callbacks and the auto-update loop that polls every watched  *)
(* root through tool_call_syscall, records the snapshots and evicts the    *)
(* roots whose query failed.                                               *)
(*                                                                         *)
(* Execution model.  Streamlit runs the script top to bottom in one        *)
(* thread.  A button click is served by stopping the running script at its *)
(* next st.* call, running the callback, and running the script again from *)
(* the top: a callback never runs in parallel with the loop, and the       *)
(* locals of the stopped run (the loop index, usage_data, pids_to_remove)  *)
(* are lost.  st.rerun() ends the run and starts the next one.             *)
(*                                                                         *)
(* The second part is the manual scanner (src/manual_rusage.py): one call  *)
(* of get_manual_usage, which discovers the descendants of a root with     *)
(* get_children_recursive and adds up the counters of /proc/<pid>/stat and *)
(* /proc/<pid>/status, one file read at a time, on a process table that    *)
(* stays as it is (SpecStatic) or changes under the scan (SpecChurn).  The *)
(* dashboard never calls the scanner: the two are separate programs.       *)
(*                                                                         *)
(* The third part (SpecUnits) calls three functions once each, on inputs   *)
(* drawn from their domains: call_custom_syscall with its display-name     *)
(* lookup (src/src/syscall_wrapper.py), the sleep at the end of a cycle    *)
(* (src/app.py), and the parse of a stat line (src/manual_rusage.py).      *)
(***************************************************************************)
EXTENDS Integers, Sequences, FiniteSets, TLC

VARIABLES
    monitoring_pids,   \* st.session_state.monitoring_pids: a list of PIDs
    update_interval,   \* st.session_state.update_interval
    history,           \* st.session_state.history: dict pid -> list of snapshots
    process_list,      \* st.session_state.process_list
    pc,                \* position of the script run
    i,                 \* index of the for loop of line 162 (1-based)
    usage_data,        \* result of the tool_call_syscall of this iteration
    pids_to_remove,    \* the local list of line 160
    gone,              \* processes that have exited: their query fails
    nsnap,             \* per root: snapshots recorded since history was emptied
    ncmd,              \* button clicks served so far
    notice,            \* the message the last callback showed
    stopped_at,        \* where the last click stopped the script, and the
                       \* roots that had history then
    limits,            \* the bounds of this behaviour: clicks and snapshots
    facility,          \* the privileged kernel facility, as this machine has it
    hung,              \* roots whose query, once issued, never returns
    \* manual_rusage.py: one call of get_manual_usage(root_pid)
    proc,              \* /proc: the process table
    nchurn,            \* processes that exited or were forked during the call
    phase,             \* where the call is
    stack,             \* the call stack of get_children_recursive
    scan_pids,         \* the local list pids of line 43
    scan_at,           \* index of the for loop of line 55 (1-based)
    stage,             \* the file the iteration reads next: stat or status
    totals,            \* total_utime, total_stime, max_rss_kb, total_minflt,
                       \* total_majflt
    result,            \* the dict the call returned
    reads,             \* what the call has read so far
    \* the functions of the two programs, one call at a time
    call,              \* syscall_wrapper.py: one call of call_custom_syscall
    nap,               \* app.py: the sleep of lines 230-231
    scanline           \* manual_rusage.py: one stat line and what is parsed
                       \* from it

vars == <<monitoring_pids, update_interval, history, process_list, pc, i,
          usage_data, pids_to_remove, gone, nsnap, ncmd, notice, stopped_at,
          limits, facility, hung, proc, nchurn, phase, stack, scan_pids,
          scan_at, stage,
          totals, result, reads, call, nap, scanline>>

\* The dashboard (src/app.py) and the kernel it queries.
monitor == <<monitoring_pids, update_interval, history, process_list, pc, i,
             usage_data, pids_to_remove, gone, nsnap, ncmd, notice,
             stopped_at, limits>>
kernel == <<facility, hung>>

\* The manual scanner (src/manual_rusage.py) and the /proc it reads.
scanner == <<proc, nchurn, phase, stack, scan_pids, scan_at, stage, totals,
             result, reads>>

\* One call of a function of the programs, on its own.
units == <<call, nap, scanline>>

session == <<monitoring_pids, update_interval, history, process_list>>
locals == <<i, usage_data, pids_to_remove>>
clicks == <<ncmd, notice, stopped_at, limits>>

----------------------------------------------------------------------------
(* Bounds of the model. *)

\* Spec: button clicks served in one behaviour, and snapshots captured
\* between two points where history is emptied.
MaxCommands == 2
MaxSnaps == 2

\* SpecLong: snapshots of one root in a monitoring session that runs past
\* the history limit.
LongSnaps == 102

(* Program constants. *)

\* history = history[-100:]
HistoryLimit == 100

\* The PIDs a command can name (the spec's end-to-end scenario).
PIDs == {100, 200}

\* An interval as the plan carries it: a number (in tenths of a second) or
\* a value that is not a number (the plan is JSON written by a language
\* model: "interval": "0.5s" is a string).
Num(t) == [num |-> TRUE, tenths |-> t]
NotANumber == [num |-> FALSE, tenths |-> 0]
Intervals == {Num(0), Num(5), NotANumber}

\* if "update_interval" not in st.session_state: ... = 1.0
DefaultInterval == Num(10)

\* The PID lists a monitor plan can carry: none found, one root, two roots,
\* a root named twice ("monitor 100 100"), alone or with another root.
PidLists == {<<>>, <<100>>, <<100, 200>>, <<100, 100, 200>>}

EmptyDict == [p \in {} |-> <<>>]

NoData == [pid |-> 0, seq |-> 0, error |-> FALSE]

NoSnaps == [p \in PIDs |-> 0]

----------------------------------------------------------------------------
(* Python list and dict operations used by the loop. *)

\* seq[-n:]
LastN(seq, n) ==
    IF Len(seq) <= n THEN seq ELSE SubSeq(seq, Len(seq) - n + 1, Len(seq))

\* x in lst
InList(x, lst) == \E k \in 1..Len(lst) : lst[k] = x

\* lst.remove(x): drops the first occurrence of x
ListRemove(lst, x) ==
    LET k == CHOOSE k \in 1..Len(lst) :
                 lst[k] = x /\ \A j \in 1..(k - 1) : lst[j] # x
    IN  SubSeq(lst, 1, k - 1) \o SubSeq(lst, k + 1, Len(lst))

\* del d[k]
DictDel(d, k) == [p \in DOMAIN d \ {k} |-> d[p]]

\* d[k] = v
DictSet(d, k, v) == [p \in DOMAIN d \cup {k} |-> IF p = k THEN v ELSE d[p]]

\* set(lst)
ListSet(lst) == {lst[k] : k \in 1..Len(lst)}

\* a / b of two integers: a float, kept here as the fraction in lowest terms.
RECURSIVE GCD(_, _)
GCD(a, b) == IF b = 0 THEN a ELSE GCD(b, a % b)

TrueDiv(a, b) ==
    LET g == IF a = 0 THEN b ELSE GCD(a, b)
    IN  [num |-> a \div g, den |-> b \div g]

----------------------------------------------------------------------------
(* The query of one root. *)

\* The privileged kernel facility: "ok", the kernel provides syscall 472
\* and libc was loaded; "not_loaded", the import left syscall = None (lines
\* 41-54); "no_operation", the kernel does not provide syscall 472 and the
\* call returns -1 (ENOSYS).
Facilities == {"ok", "not_loaded", "no_operation"}

\* call_custom_syscall: an error dict when the syscall function is not
\* loaded (line 64) or the syscall returns < 0 (line 89: the process is
\* gone, or the kernel has no such syscall), else the usage dict.  seq
\* stands for the cumulative counters the kernel returns, which grow from
\* one recorded capture of a root to the next.
call_custom_syscall(pid) ==
    IF facility = "not_loaded"
        THEN [pid |-> pid, seq |-> 0, error |-> TRUE]
    ELSE IF facility = "no_operation" \/ pid \in gone
        THEN [pid |-> pid, seq |-> 0, error |-> TRUE]
        ELSE [pid |-> pid, seq |-> nsnap[pid] + 1, error |-> FALSE]

\* The syscall of line 86 is a blocking call made without a timeout: when
\* the kernel does not answer, the call does not return.
Blocks(pid) == facility = "ok" /\ pid \in hung

tool_call_syscall(pid) == call_custom_syscall(pid)

\* usage = CRusage() (line 80): the fields call_custom_syscall reads.
ZeroRusage ==
    [ru_utime |-> [tv_sec |-> 0, tv_usec |-> 0],
     ru_stime |-> [tv_sec |-> 0, tv_usec |-> 0],
     ru_maxrss |-> 0, ru_minflt |-> 0, ru_majflt |-> 0]

\* tv_sec + (tv_usec / 1_000_000.0)
Seconds(tv) == TrueDiv(tv.tv_sec * 1000000 + tv.tv_usec, 1000000)

\* Lines 95-108: the dict call_custom_syscall returns on success.
SyscallUsage(pid, process_name, usage) ==
    [pid               |-> pid,
     process_name      |-> process_name,
     user_time         |-> Seconds(usage.ru_utime),
     sys_time          |-> Seconds(usage.ru_stime),
     max_rss_kb        |-> usage.ru_maxrss,
     minor_page_faults |-> usage.ru_minflt,
     major_page_faults |-> usage.ru_majflt]

\* The keys of usage_data the dashboard reads to draw a card (src/app.py,
\* lines 183-193).
MetricKeys ==
    {"process_name", "user_time", "sys_time", "max_rss_kb",
     "minor_page_faults", "major_page_faults"}

----------------------------------------------------------------------------
(* The history update of one successful query (lines 173-179). *)

\* (mutant) history[:100]: keeps the oldest entries
HistoryTrim_KeepsOldest(h) ==
    IF Len(h) <= HistoryLimit THEN h ELSE SubSeq(h, 1, HistoryLimit)

\* history[-100:]
HistoryTrim(h) == LastN(h, HistoryLimit)

HistoryUpdate(hist, pid, data) ==
    LET old == IF pid \in DOMAIN hist THEN hist[pid] ELSE <<>>
    IN  DictSet(hist, pid, HistoryTrim(Append(old, data)))

----------------------------------------------------------------------------
(* The cleanup loop (lines 216-221): for pid in pids_to_remove, remove the *)
(* pid from monitoring_pids if it is there and delete its history if any.  *)

CleanupStep(st, pid) ==
    [pids |-> IF InList(pid, st.pids) THEN ListRemove(st.pids, pid)
                                      ELSE st.pids,
     hist |-> IF pid \in DOMAIN st.hist THEN DictDel(st.hist, pid)
                                        ELSE st.hist]

RECURSIVE CleanupLoop(_, _)
CleanupLoop(st, rm) ==
    IF rm = <<>> THEN st
    ELSE CleanupLoop(CleanupStep(st, Head(rm)), Tail(rm))

----------------------------------------------------------------------------
(* /proc as src/manual_rusage.py reads it. *)

\* The numeric entries os.listdir('/proc') can return.
ProcIds == {1, 2, 3}

\* get_manual_usage(root_pid): the root of the query.
Root == 1

\* What a /proc/<pid>/stat and /proc/<pid>/status read gives: "ok", both
\* parse; "no_hwm", status has no VmHWM line (a kernel thread, a zombie);
\* "bad", the content does not parse: a field is missing or is not a number
\* (IndexError, ValueError), or the name holds bytes that are not UTF-8
\* (UnicodeDecodeError, a ValueError).
Forms == {"ok", "no_hwm", "bad"}

NoProcess == [alive |-> FALSE, ppid |-> 0, form |-> "ok"]
Process(pp, f) == [alive |-> TRUE, ppid |-> pp, form |-> f]

\* A process table: the parent of a process is 0 (a process outside the
\* table, init) or a live process, and no process is its own ancestor.
ParentsLive(t) ==
    \A p \in ProcIds :
        t[p].alive =>
            /\ t[p].ppid # p
            /\ t[p].ppid # 0 => t[t[p].ppid].alive

RECURSIVE Ancestors(_, _, _)
Ancestors(t, p, fuel) ==
    IF fuel = 0 \/ ~t[p].alive \/ t[p].ppid = 0 THEN {}
    ELSE {t[p].ppid} \cup Ancestors(t, t[p].ppid, fuel - 1)

Acyclic(t) == \A p \in ProcIds : p \notin Ancestors(t, p, Cardinality(ProcIds))

Tables(forms) ==
    {t \in [ProcIds -> {NoProcess} \cup
                       {Process(pp, f) : pp \in {0} \cup ProcIds, f \in forms}] :
        ParentsLive(t) /\ Acyclic(t)}

\* The fields of /proc/<pid>/stat that get_manual_usage reads (stats[7] to
\* stats[14]), as fixtures: the values of two processes never add up to
\* those of another set of processes.
Weight(p) == CASE p = 1 -> 1 [] p = 2 -> 4 [] OTHER -> 16

StatFields(p) ==
    [minflt |-> Weight(p),      cminflt |-> 2 * Weight(p),
     majflt |-> 5 * Weight(p),  cmajflt |-> 7 * Weight(p),
     utime  |-> 50 * Weight(p), stime   |-> 30 * Weight(p),
     cutime |-> 20 * Weight(p), cstime  |-> 10 * Weight(p)]

\* The VmHWM line of /proc/<pid>/status, in kB.
VmHWM(p) == CASE p = 1 -> 300 [] p = 2 -> 500 [] OTHER -> 200

\* os.sysconf('SC_CLK_TCK')
clk_tck == 100

\* os.listdir('/proc'), numeric entries only: procfs lists the processes in
\* increasing PID order.
RECURSIVE Ascending(_)
Ascending(S) ==
    IF S = {} THEN <<>>
    ELSE LET m == CHOOSE x \in S : \A y \in S : x <= y
         IN  <<m>> \o Ascending(S \ {m})

Listdir(t) == Ascending({p \in ProcIds : t[p].alive})

\* open() and read of /proc/<pid>/stat followed by the parse of its fields:
\* what it raises, or "ok".
OpenStat(p) ==
    IF ~proc[p].alive THEN "FileNotFoundError"
    ELSE IF proc[p].form = "bad" THEN "ValueError"
    ELSE "ok"

\* open() of /proc/<pid>/status and the scan for its VmHWM line.
OpenStatus(p) ==
    IF ~proc[p].alive THEN "FileNotFoundError" ELSE "ok"

\* except (IOError, FileNotFoundError): of get_children_recursive (line 33)
InnerCatches(exc) == exc \in {"IOError", "FileNotFoundError"}

\* except Exception: of get_children_recursive (line 36)
OuterCatches(exc) == exc \in {"IOError", "FileNotFoundError", "ValueError"}

\* except (IOError, FileNotFoundError): of get_manual_usage (line 95)
UsageCatches(exc) == exc \in {"IOError", "FileNotFoundError"}

\* A call of get_children_recursive(pid): its listing, the index of the
\* candidate it reads next, and its children list.
Frame(pid, t) ==
    [pid |-> pid, listing |-> Listdir(t), k |-> 1, children |-> <<>>]

\* Lines 47-51.
ZeroTotals ==
    [total_utime |-> 0, total_stime |-> 0, max_rss_kb |-> 0,
     total_minflt |-> 0, total_majflt |-> 0]

NoResult == [returned |-> FALSE]

\* What the call has read: the candidates whose stat file was gone when
\* get_children_recursive opened it, the members whose stat counters were
\* added to the totals, the members whose status file was read.
NoReads == [vanished |-> {}, counted |-> <<>>, peaked |-> <<>>]

\* No function is called on its own.
NoCall == [at |-> "off"]
NoNap == [at |-> "off"]
NoLine == [at |-> "off"]

UnitsNotRun ==
    /\ call = NoCall
    /\ nap = NoNap
    /\ scanline = NoLine

\* The scanner is not part of the dashboard: app.py never calls it.
ScannerNotRun ==
    /\ proc = [p \in ProcIds |-> NoProcess]
    /\ nchurn = 0
    /\ phase = "off"
    /\ stack = <<>>
    /\ scan_pids = <<>>
    /\ scan_at = 0
    /\ stage = ""
    /\ totals = ZeroTotals
    /\ result = NoResult
    /\ reads = NoReads

----------------------------------------------------------------------------
(* The script run. *)

\* Places where the running script can be stopped to serve a click: it is
\* between two st.* calls, or it has ended.
Interruptible == pc \in {"run", "query", "card", "cleanup", "idle"}

\* The next script run starts; the locals of the previous one are gone.
StartRun ==
    /\ stopped_at' = [pc |-> pc, roots |-> DOMAIN history]
    /\ pc' = "run"
    /\ i' = 0
    /\ usage_data' = NoData
    /\ pids_to_remove' = <<>>

Init ==
    /\ monitoring_pids = <<>>
    /\ update_interval = DefaultInterval
    /\ history = EmptyDict
    /\ process_list = ""
    /\ pc = "run"
    /\ i = 0
    /\ usage_data = NoData
    /\ pids_to_remove = <<>>
    /\ gone = {}
    /\ nsnap = NoSnaps
    /\ ncmd = 0
    /\ notice = ""
    /\ stopped_at = [pc |-> "", roots |-> {}]
    /\ limits = [cmds |-> MaxCommands, snaps |-> MaxSnaps]
    /\ facility = "ok"
    /\ hung = {}
    /\ ScannerNotRun
    /\ UnitsNotRun

----------------------------------------------------------------------------
(* on_submit_clicked (lines 45-88), given the plan the agent returned.     *)

Plans ==
    [type : {"empty", "list", "stop", "error", "unknown"},
     pids : {<<>>}, interval : {DefaultInterval}]
    \cup [type : {"monitor"}, pids : PidLists, interval : Intervals]

\* (mutant) an empty PID list leaves the PID list as it was
PlanMonitor_IgnoresEmpty(plan) ==
    /\ monitoring_pids' = IF plan.pids = <<>> THEN monitoring_pids
                                              ELSE plan.pids
    /\ update_interval' = plan.interval
    /\ history' = EmptyDict
    /\ nsnap' = NoSnaps
    /\ notice' = IF plan.pids = <<>> THEN "error: no PIDs"
                                     ELSE "toast: starting to monitor"
    /\ UNCHANGED process_list

\* (mutant) the monitor plan forgets to clear the old history
PlanMonitor_KeepsHistory(plan) ==
    /\ monitoring_pids' = plan.pids
    /\ update_interval' = plan.interval
    /\ notice' = IF plan.pids = <<>> THEN "error: no PIDs"
                                     ELSE "toast: starting to monitor"
    /\ UNCHANGED <<history, nsnap, process_list>>

PlanMonitor(plan) ==
    /\ monitoring_pids' = plan.pids
    /\ update_interval' = plan.interval
    /\ history' = EmptyDict
    /\ nsnap' = NoSnaps
    /\ notice' = IF plan.pids = <<>> THEN "error: no PIDs"
                                     ELSE "toast: starting to monitor"
    /\ UNCHANGED process_list

\* (mutant) the stop plan forgets to clear history
PlanStop_KeepsHistory ==
    /\ monitoring_pids' = <<>>
    /\ notice' = "toast: monitoring stopped"
    /\ UNCHANGED <<update_interval, history, process_list, nsnap>>

PlanStop ==
    /\ monitoring_pids' = <<>>
    /\ history' = EmptyDict
    /\ nsnap' = NoSnaps
    /\ notice' = "toast: monitoring stopped"
    /\ UNCHANGED <<update_interval, process_list>>

\* (mutant) the list plan resets the session like a stop
PlanList_ResetsSession ==
    /\ process_list' = "ps"
    /\ notice' = ""
    /\ monitoring_pids' = <<>>
    /\ history' = EmptyDict
    /\ nsnap' = NoSnaps
    /\ UNCHANGED update_interval

PlanList ==
    /\ process_list' = "ps"
    /\ notice' = ""
    /\ UNCHANGED <<monitoring_pids, update_interval, history, nsnap>>

\* No command text (line 51), an "error" plan, an unknown plan.
PlanOther(plan) ==
    /\ notice' = IF plan.type = "empty" THEN "warning: enter a command"
                                        ELSE "error: not understood"
    /\ UNCHANGED <<monitoring_pids, update_interval, history, process_list,
                   nsnap>>

on_submit_clicked(plan) ==
    CASE plan.type = "list"    -> PlanList
      [] plan.type = "monitor" -> PlanMonitor(plan)
      [] plan.type = "stop"    -> PlanStop
      [] OTHER                 -> PlanOther(plan)

\* (mutant) the Stop / Clear button forgets to clear history
on_stop_clicked_KeepsHistory ==
    /\ monitoring_pids' = <<>>
    /\ process_list' = ""
    /\ notice' = "toast: dashboard cleared"
    /\ UNCHANGED <<update_interval, history, nsnap>>

(* on_stop_clicked (lines 90-99). *)
on_stop_clicked ==
    /\ monitoring_pids' = <<>>
    /\ history' = EmptyDict
    /\ process_list' = ""
    /\ nsnap' = NoSnaps
    /\ notice' = "toast: dashboard cleared"
    /\ UNCHANGED update_interval

\* The Execute button: the running script stops, the callback runs, the
\* script runs again.
SubmitPlan(plan) ==
    /\ Interruptible
    /\ ncmd < limits.cmds
    /\ on_submit_clicked(plan)
    /\ StartRun
    /\ ncmd' = ncmd + 1
    /\ UNCHANGED <<gone, limits, kernel, scanner, units>>

Submit == \E plan \in Plans : SubmitPlan(plan)

\* The Stop / Clear button.
StopClear ==
    /\ Interruptible
    /\ ncmd < limits.cmds
    /\ on_stop_clicked
    /\ StartRun
    /\ ncmd' = ncmd + 1
    /\ UNCHANGED <<gone, limits, kernel, scanner, units>>

----------------------------------------------------------------------------
(* The auto-update loop (lines 152-242). *)

\* Line 152: enter the dashboard, or show the "No PIDs" message and end.
Run ==
    /\ pc = "run"
    /\ IF monitoring_pids # <<>>
          THEN /\ pc' = "query"
               /\ i' = 1
          ELSE /\ pc' = "idle"
               /\ i' = 0
    /\ pids_to_remove' = <<>>
    /\ UNCHANGED <<session, usage_data, gone, nsnap, clicks, kernel, scanner,
                   units>>

\* Line 165: usage_data = tool_call_syscall(pid).  The script thread is
\* inside the call until it returns: "blocked" is the call that never does.
Query ==
    /\ pc = "query"
    /\ \/ monitoring_pids[i] \in gone
       \/ nsnap[monitoring_pids[i]] < limits.snaps
    /\ IF Blocks(monitoring_pids[i])
          THEN /\ pc' = "blocked"
               /\ UNCHANGED usage_data
          ELSE /\ usage_data' = tool_call_syscall(monitoring_pids[i])
               /\ pc' = "card"
    /\ UNCHANGED <<session, i, pids_to_remove, gone, nsnap, clicks, kernel,
                   scanner, units>>

\* Lines 168-213: record the snapshot, or note the root for removal; then
\* the next iteration, or the cleanup after the last one.
Card ==
    /\ pc = "card"
    /\ IF ~usage_data.error
          THEN /\ history' = HistoryUpdate(history, monitoring_pids[i],
                                           usage_data)
               /\ nsnap' = [nsnap EXCEPT ![monitoring_pids[i]] = @ + 1]
               /\ UNCHANGED pids_to_remove
          ELSE /\ pids_to_remove' = Append(pids_to_remove, monitoring_pids[i])
               /\ UNCHANGED <<history, nsnap>>
    /\ IF i < Len(monitoring_pids)
          THEN /\ i' = i + 1
               /\ pc' = "query"
          ELSE /\ i' = 0
               /\ pc' = "cleanup"
    /\ usage_data' = NoData
    /\ UNCHANGED <<monitoring_pids, update_interval, process_list, gone,
                   clicks, kernel, scanner, units>>

\* (mutant) no st.rerun() at line 224: the run goes on to line 227
Cleanup_NoRerun ==
    /\ pc = "cleanup"
    /\ LET st == CleanupLoop([pids |-> monitoring_pids, hist |-> history],
                             pids_to_remove)
       IN  /\ monitoring_pids' = st.pids
           /\ history' = st.hist
    /\ pc' = "sleep"
    /\ pids_to_remove' = <<>>
    /\ UNCHANGED <<update_interval, process_list, i, usage_data, gone, nsnap,
                   clicks, kernel, scanner, units>>

\* Lines 216-224: the cleanup loop; st.rerun() at once when nothing is left.
Cleanup ==
    /\ pc = "cleanup"
    /\ LET st == CleanupLoop([pids |-> monitoring_pids, hist |-> history],
                             pids_to_remove)
       IN  /\ monitoring_pids' = st.pids
           /\ history' = st.hist
           /\ pc' = IF st.pids = <<>> THEN "run" ELSE "sleep"
    /\ pids_to_remove' = <<>>
    /\ UNCHANGED <<update_interval, process_list, i, usage_data, gone, nsnap,
                   clicks, kernel, scanner, units>>

\* sleep_time = max(0.1, update_interval), in tenths of a second; a value
\* that is not a number makes max() raise.
SleepTime(interval) == IF interval.tenths > 1 THEN interval.tenths ELSE 1

\* A number above what time.sleep accepts (about 9.2e9 seconds, or inf):
\* time.sleep raises OverflowError.  Its size is beyond the integers of this
\* model, so it is a value of its own.
TooLong == [num |-> TRUE, over |-> TRUE]

Over(interval) == "over" \in DOMAIN interval

\* Lines 230-231 raise: max() on a value that is not a number, or
\* time.sleep on a number it cannot convert.
SleepRaises(interval) == ~interval.num \/ Over(interval)

\* Lines 227-236: sleep and rerun; on an exception drop the PID list and
\* rerun.
Sleep ==
    /\ pc = "sleep"
    /\ IF SleepRaises(update_interval)
          THEN monitoring_pids' = <<>>
          ELSE UNCHANGED monitoring_pids
    /\ pc' = "run"
    /\ UNCHANGED <<update_interval, history, process_list, locals, gone,
                   nsnap, clicks, kernel, scanner, units>>

\* A process exits: from now on its query fails.
ProcessExit ==
    /\ \E p \in PIDs \ gone : gone' = gone \cup {p}
    /\ UNCHANGED <<session, pc, locals, nsnap, clicks, kernel, scanner, units>>

Next ==
    \/ Submit
    \/ StopClear
    \/ Run
    \/ Query
    \/ Card
    \/ Cleanup
    \/ Sleep
    \/ ProcessExit

Spec == Init /\ [][Next]_vars

\* A single monitoring session, long enough for history to reach its limit:
\* one click is served (the one that starts the session, or any other).
InitLong ==
    /\ monitoring_pids = <<>>
    /\ update_interval = DefaultInterval
    /\ history = EmptyDict
    /\ process_list = ""
    /\ pc = "run"
    /\ i = 0
    /\ usage_data = NoData
    /\ pids_to_remove = <<>>
    /\ gone = {}
    /\ nsnap = NoSnaps
    /\ ncmd = 0
    /\ notice = ""
    /\ stopped_at = [pc |-> "", roots |-> {}]
    /\ limits = [cmds |-> 1, snaps |-> LongSnaps]
    /\ facility = "ok"
    /\ hung = {}
    /\ ScannerNotRun
    /\ UnitsNotRun

SpecLong == InitLong /\ [][Next]_vars

\* The script is one thread that runs on unless a click stops it: every
\* step of the loop that can be taken is taken.
Fairness ==
    /\ WF_vars(Run)
    /\ WF_vars(Query)
    /\ WF_vars(Card)
    /\ WF_vars(Cleanup)
    /\ WF_vars(Sleep)

FairSpec == Init /\ [][Next]_vars /\ Fairness

\* Any machine the dashboard can be started on: the kernel may lack the
\* facility, and where it has it the query of some roots may never return
\* (the kernel code of syscall 472 is not part of the sources).
InitEnv ==
    /\ monitoring_pids = <<>>
    /\ update_interval = DefaultInterval
    /\ history = EmptyDict
    /\ process_list = ""
    /\ pc = "run"
    /\ i = 0
    /\ usage_data = NoData
    /\ pids_to_remove = <<>>
    /\ gone = {}
    /\ nsnap = NoSnaps
    /\ ncmd = 0
    /\ notice = ""
    /\ stopped_at = [pc |-> "", roots |-> {}]
    /\ limits = [cmds |-> MaxCommands, snaps |-> MaxSnaps]
    /\ facility \in Facilities
    /\ hung \in SUBSET PIDs
    /\ facility # "ok" => hung = {}
    /\ ScannerNotRun
    /\ UnitsNotRun

SpecEnv == InitEnv /\ [][Next]_vars

FairSpecEnv == InitEnv /\ [][Next]_vars /\ Fairness

----------------------------------------------------------------------------
(* get_manual_usage(Root) of src/manual_rusage.py, one file read at a time. *)

\* Churn: processes that exit or are forked while one call scans.
MaxChurn == 2

\* The dashboard is not part of a run of the scanner.
DashboardNotRun ==
    /\ monitoring_pids = <<>>
    /\ update_interval = DefaultInterval
    /\ history = EmptyDict
    /\ process_list = ""
    /\ pc = "off"
    /\ i = 0
    /\ usage_data = NoData
    /\ pids_to_remove = <<>>
    /\ gone = {}
    /\ nsnap = NoSnaps
    /\ ncmd = 0
    /\ notice = ""
    /\ stopped_at = [pc |-> "", roots |-> {}]
    /\ limits = [cmds |-> 0, snaps |-> 0]
    /\ facility = "ok"
    /\ hung = {}

\* Line 43: get_manual_usage calls get_children_recursive(root_pid), which
\* lists /proc.
CallStarts(tables) ==
    /\ proc \in tables
    /\ nchurn = 0
    /\ phase = "discover"
    /\ stack = <<Frame(Root, proc)>>
    /\ scan_pids = <<>>
    /\ scan_at = 0
    /\ stage = ""
    /\ totals = ZeroTotals
    /\ result = NoResult
    /\ reads = NoReads

Top == stack[Len(stack)]

\* continue: on to the next entry of the listing
NextCandidate(f) == [f EXCEPT !.k = @ + 1]

\* the for loop of line 12 is left by an exception
LoopAborted(f) == [f EXCEPT !.k = Len(f.listing) + 1]

\* (mutant) a stat file that is gone ends the scan of the listing
ScanCandidate_GoneAborts ==
    /\ phase = "discover"
    /\ stack # <<>>
    /\ Top.k <= Len(Top.listing)
    /\ LET d == Len(stack)
           c == Top.listing[Top.k]
           exc == OpenStat(c)
       IN  /\ IF exc = "ok"
                THEN IF proc[c].ppid = Top.pid
                        THEN stack' = Append(
                                 [stack EXCEPT ![d].children = Append(@, c)],
                                 Frame(c, proc))
                        ELSE stack' = [stack EXCEPT ![d] = NextCandidate(@)]
                ELSE stack' = [stack EXCEPT ![d] = LoopAborted(@)]
           /\ reads' = IF exc = "FileNotFoundError"
                          THEN [reads EXCEPT !.vanished = @ \cup {c}]
                          ELSE reads
    /\ UNCHANGED <<proc, nchurn, phase, scan_pids, scan_at, stage, totals,
                   result, monitor, kernel,
                   units>>

\* Lines 12-35: one candidate of the listing.  Its stat file is read and its
\* ppid parsed; a child is appended and get_children_recursive is called on
\* it (which lists /proc again).  An exception of line 33 goes on with the
\* next candidate, one of line 36 ends the loop.
ScanCandidate ==
    /\ phase = "discover"
    /\ stack # <<>>
    /\ Top.k <= Len(Top.listing)
    /\ LET d == Len(stack)
           c == Top.listing[Top.k]
           exc == OpenStat(c)
       IN  /\ IF exc = "ok"
                THEN /\ IF proc[c].ppid = Top.pid
                          THEN stack' = Append(
                                   [stack EXCEPT ![d].children = Append(@, c)],
                                   Frame(c, proc))
                          ELSE stack' = [stack EXCEPT ![d] = NextCandidate(@)]
                     /\ UNCHANGED phase
                ELSE IF InnerCatches(exc)
                    THEN /\ stack' = [stack EXCEPT ![d] = NextCandidate(@)]
                         /\ UNCHANGED phase
                ELSE IF OuterCatches(exc)
                    THEN /\ stack' = [stack EXCEPT ![d] = LoopAborted(@)]
                         /\ UNCHANGED phase
                    ELSE /\ phase' = "raised"
                         /\ UNCHANGED stack
           /\ reads' = IF exc = "FileNotFoundError"
                          THEN [reads EXCEPT !.vanished = @ \cup {c}]
                          ELSE reads
    /\ UNCHANGED <<proc, nchurn, scan_pids, scan_at, stage, totals, result,
                   monitor, kernel,
                   units>>

\* Line 39: return children.  The caller extends its list with them (line
\* 32) and goes on; the outermost call returns to line 43, where
\* pids = [root_pid] + children.
ReturnChildren ==
    /\ phase = "discover"
    /\ stack # <<>>
    /\ Top.k > Len(Top.listing)
    /\ LET d == Len(stack)
       IN  IF d > 1
              THEN /\ stack' = [SubSeq(stack, 1, d - 1) EXCEPT ![d - 1] =
                                   NextCandidate([@ EXCEPT !.children =
                                                      @ \o Top.children])]
                   /\ UNCHANGED <<phase, scan_pids, scan_at, stage>>
              ELSE /\ stack' = <<>>
                   /\ scan_pids' = <<Root>> \o Top.children
                   /\ phase' = "aggregate"
                   /\ scan_at' = 1
                   /\ stage' = "stat"
    /\ UNCHANGED <<proc, nchurn, totals, result, reads, monitor, kernel,
                   units>>

\* (mutant) the counters of the reaped children are left out
AddCounters_OwnOnly(t, st) ==
    [t EXCEPT !.total_minflt = @ + st.minflt,
              !.total_majflt = @ + st.majflt,
              !.total_utime = @ + st.utime,
              !.total_stime = @ + st.stime]

\* Lines 78-81.
AddCounters(t, st) ==
    [t EXCEPT !.total_minflt = @ + (st.minflt + st.cminflt),
              !.total_majflt = @ + (st.majflt + st.cmajflt),
              !.total_utime = @ + (st.utime + st.cutime),
              !.total_stime = @ + (st.stime + st.cstime)]

\* (mutant) the peaks of the members add up
PeakMemory_Sum(t, kb) == [t EXCEPT !.max_rss_kb = @ + kb]

\* Lines 91-92: if kb > max_rss_kb: max_rss_kb = kb
PeakMemory(t, kb) ==
    [t EXCEPT !.max_rss_kb = IF kb > @ THEN kb ELSE @]

\* Lines 58-81: the stat file of one member.
ReadStat ==
    /\ phase = "aggregate"
    /\ scan_at <= Len(scan_pids)
    /\ stage = "stat"
    /\ LET pid == scan_pids[scan_at]
           exc == OpenStat(pid)
       IN  IF exc = "ok"
              THEN /\ totals' = AddCounters(totals, StatFields(pid))
                   /\ stage' = "status"
                   /\ reads' = [reads EXCEPT !.counted = Append(@, pid)]
                   /\ UNCHANGED <<phase, scan_at>>
           ELSE IF UsageCatches(exc)
              THEN /\ scan_at' = scan_at + 1
                   /\ UNCHANGED <<phase, stage, totals, reads>>
              ELSE /\ phase' = "raised"
                   /\ UNCHANGED <<scan_at, stage, totals, reads>>
    /\ UNCHANGED <<proc, nchurn, stack, scan_pids, result, monitor, kernel,
                   units>>

\* Lines 84-97: the status file of the same member.
ReadStatus ==
    /\ phase = "aggregate"
    /\ scan_at <= Len(scan_pids)
    /\ stage = "status"
    /\ LET pid == scan_pids[scan_at]
           exc == OpenStatus(pid)
       IN  IF exc = "ok"
              THEN /\ totals' = IF proc[pid].form = "no_hwm"
                                   THEN totals
                                   ELSE PeakMemory(totals, VmHWM(pid))
                   /\ reads' = [reads EXCEPT !.peaked = Append(@, pid)]
                   /\ UNCHANGED phase
           ELSE IF UsageCatches(exc)
              THEN UNCHANGED <<phase, totals, reads>>
              ELSE /\ phase' = "raised"
                   /\ UNCHANGED <<totals, reads>>
    /\ scan_at' = scan_at + 1
    /\ stage' = "stat"
    /\ UNCHANGED <<proc, nchurn, stack, scan_pids, result, monitor, kernel,
                   units>>

\* Lines 99-105.
ManualUsage(t) ==
    [utime_sec |-> TrueDiv(t.total_utime, clk_tck),
     stime_sec |-> TrueDiv(t.total_stime, clk_tck),
     maxrss_kb |-> t.max_rss_kb,
     minflt    |-> t.total_minflt,
     majflt    |-> t.total_majflt]

ReturnUsage ==
    /\ phase = "aggregate"
    /\ scan_at > Len(scan_pids)
    /\ result' = ManualUsage(totals)
    /\ phase' = "returned"
    /\ UNCHANGED <<proc, nchurn, stack, scan_pids, scan_at, stage, totals,
                   reads, monitor, kernel,
                   units>>

Scanning == phase \in {"discover", "aggregate"}

\* A process exits while the call scans: its /proc entry is gone and its
\* children are re-parented to init, or to the nearest ancestor that is a
\* child subreaper (any live ancestor can be one).
Exit(p, heir) ==
    /\ Scanning
    /\ nchurn < MaxChurn
    /\ proc[p].alive
    /\ heir \in {0} \cup Ancestors(proc, p, Cardinality(ProcIds))
    /\ proc' = [q \in ProcIds |->
                   IF q = p THEN NoProcess
                   ELSE IF proc[q].alive /\ proc[q].ppid = p
                       THEN [proc[q] EXCEPT !.ppid = heir]
                       ELSE proc[q]]
    /\ nchurn' = nchurn + 1
    /\ UNCHANGED <<phase, stack, scan_pids, scan_at, stage, totals, result,
                   reads, monitor, kernel,
                   units>>

\* A process (init, or one of the table) forks a child while the call scans.
Fork(parent, child) ==
    /\ Scanning
    /\ nchurn < MaxChurn
    /\ ~proc[child].alive
    /\ IF parent = 0 THEN TRUE ELSE proc[parent].alive
    /\ proc' = [proc EXCEPT ![child] = Process(parent, "ok")]
    /\ nchurn' = nchurn + 1
    /\ UNCHANGED <<phase, stack, scan_pids, scan_at, stage, totals, result,
                   reads, monitor, kernel,
                   units>>

ScanNext ==
    \/ ScanCandidate
    \/ ReturnChildren
    \/ ReadStat
    \/ ReadStatus
    \/ ReturnUsage

Churn ==
    \/ \E p \in ProcIds, heir \in {0} \cup ProcIds : Exit(p, heir)
    \/ \E parent \in {0} \cup ProcIds, child \in ProcIds : Fork(parent, child)

\* One call on a process table that does not change during the call.
InitStatic == DashboardNotRun /\ UnitsNotRun /\ CallStarts(Tables(Forms))

SpecStatic == InitStatic /\ [][ScanNext]_vars

\* One call while processes exit and fork.
InitChurn ==
    DashboardNotRun /\ UnitsNotRun /\ CallStarts(Tables({"ok", "bad"}))

NextChurn == ScanNext \/ Churn

SpecChurn == InitChurn /\ [][NextChurn]_vars

\* The call is one thread that runs until it returns or raises.
FairSpecChurn ==
    /\ InitChurn
    /\ [][NextChurn]_vars
    /\ WF_vars(ScanNext)

----------------------------------------------------------------------------
(* One call of call_custom_syscall(pid) (src/src/syscall_wrapper.py). *)

\* psutil.Process(pid).name() (lines 70-72): it returns the name, or raises
\* NoSuchProcess, AccessDenied or another exception.
NameLookups == {"name", "NoSuchProcess", "AccessDenied", "OSError"}

\* p.name() of the process the call is made for
ProcessName == "sleep"

\* (mutant) the handlers of the lookup catch NoSuchProcess only
LookupCatches_OnlyNoSuchProcess(exc) == exc = "NoSuchProcess"

\* except psutil.NoSuchProcess: (line 73) and except Exception: (line 76)
LookupCatches(exc) == exc \in {"NoSuchProcess", "AccessDenied", "OSError"}

\* What syscall 472 leaves in the CRusage struct when it returns 0.
Rusages ==
    {ZeroRusage,
     [ru_utime |-> [tv_sec |-> 1, tv_usec |-> 500000],
      ru_stime |-> [tv_sec |-> 0, tv_usec |-> 250000],
      ru_maxrss |-> 2048, ru_minflt |-> 120, ru_majflt |-> 3],
     [ru_utime |-> [tv_sec |-> 12, tv_usec |-> 1],
      ru_stime |-> [tv_sec |-> 3, tv_usec |-> 999999],
      ru_maxrss |-> 70000, ru_minflt |-> 4000, ru_majflt |-> 0]}

\* What the kernel answers to the syscall of line 86: ret and errno, and the
\* struct it filled.
KernelAnswers ==
    {[ret |-> 0, errno |-> "", usage |-> u] : u \in Rusages} \cup
    {[ret |-> -1, errno |-> e, usage |-> ZeroRusage] :
        e \in {"ESRCH", "ENOSYS", "EPERM"}}

\* os.strerror(e)
strerror(e) ==
    CASE e = "ESRCH" -> "No such process"
      [] e = "ENOSYS" -> "Function not implemented"
      [] e = "EPERM" -> "Operation not permitted"
      [] OTHER -> ""

\* The call starts: the module was imported with or without the syscall
\* function, the lookup and the kernel will answer as drawn.
CallCustomSyscallStarts ==
    /\ call \in [at : {"entry"}, pid : PIDs, loaded : BOOLEAN,
                 lookup : NameLookups, answer : KernelAnswers,
                 process_name : {""}, out : {[returned |-> FALSE]}]

\* Lines 64-66: without the syscall function the call returns an error dict.
CallEntry ==
    /\ call.at = "entry"
    /\ IF ~call.loaded
          THEN call' = [call EXCEPT
                           !.at = "returned",
                           !.out = [error |-> "Syscall function not loaded."]]
          ELSE call' = [call EXCEPT !.at = "lookup", !.process_name = "N/A"]
    /\ UNCHANGED <<nap, scanline, monitor, kernel, scanner>>

\* Lines 68-77: the lookup of the display name.
CallLookup ==
    /\ call.at = "lookup"
    /\ IF call.lookup = "name"
          THEN call' = [call EXCEPT !.at = "syscall",
                                    !.process_name = ProcessName]
          ELSE IF LookupCatches(call.lookup)
              THEN call' = [call EXCEPT !.at = "syscall"]
              ELSE call' = [call EXCEPT !.at = "raised"]
    /\ UNCHANGED <<nap, scanline, monitor, kernel, scanner>>

\* Lines 79-108: the syscall, its error check and the dict of the result.
CallSyscall ==
    /\ call.at = "syscall"
    /\ IF call.answer.ret < 0
          THEN call' = [call EXCEPT
                           !.at = "returned",
                           !.out = [error |-> strerror(call.answer.errno),
                                    pid |-> call.pid]]
          ELSE call' = [call EXCEPT
                           !.at = "returned",
                           !.out = SyscallUsage(call.pid, call.process_name,
                                                call.answer.usage)]
    /\ UNCHANGED <<nap, scanline, monitor, kernel, scanner>>

----------------------------------------------------------------------------
(* The sleep at the end of a cycle (src/app.py, lines 227-236), for the    *)
(* intervals a monitor plan can carry.                                     *)

\* update_interval of the session, in tenths of a second: negative, zero,
\* the floor, above the floor, beyond time.sleep, not a number.
NapIntervals ==
    {Num(0 - 5), Num(0), Num(1), Num(5), Num(20), Num(36000), TooLong,
     NotANumber}

\* The cycle's cleanup left the system monitoring: line 227 is true.
NapStarts == nap \in [at : {"sleep"}, interval : NapIntervals, waited : {0}]

\* Lines 229-236: the wait, or the exception that ends monitoring without
\* a wait.
NapSleep ==
    /\ nap.at = "sleep"
    /\ IF SleepRaises(nap.interval)
          THEN nap' = [nap EXCEPT !.at = "raised"]
          ELSE nap' = [nap EXCEPT !.at = "slept",
                                  !.waited = SleepTime(nap.interval)]
    /\ UNCHANGED <<call, scanline, monitor, kernel, scanner>>

----------------------------------------------------------------------------
(* The parse of one /proc/<pid>/stat line (src/manual_rusage.py, lines     *)
(* 19-27 and 58-75).  A line is a sequence of characters.                  *)

\* The longest process name of the lines that are parsed.
MaxNameLen == 3

\* The characters of a process name: a letter, a space, the parentheses.
NameChars == {"a", " ", ")", "("}

Names == UNION {[1..n -> NameChars] : n \in 0..MaxNameLen}

DigitChars == <<"0", "1", "2", "3", "4", "5", "6", "7", "8", "9">>

\* str(n), as the kernel prints a field
RECURSIVE Digits(_)
Digits(n) ==
    IF n < 0 THEN <<"-">> \o Digits(0 - n)
    ELSE IF n < 10 THEN <<DigitChars[n + 1]>>
    ELSE Digits(n \div 10) \o <<DigitChars[(n % 10) + 1]>>

\* " ".join(fields)
RECURSIVE Join(_)
Join(fields) ==
    IF fields = <<>> THEN <<>>
    ELSE IF Len(fields) = 1 THEN fields[1]
    ELSE fields[1] \o <<" ">> \o Join(Tail(fields))

\* The stat line the kernel prints for process p with name comm and parent
\* ppid: pid (comm) state ppid pgrp session tty_nr tpgid flags minflt
\* cminflt majflt cmajflt utime stime cutime cstime priority, and a newline.
StatLine(p, comm, ppid) ==
    LET f == StatFields(p)
    IN  Digits(p) \o <<" ", "(">> \o comm \o <<")", " ">> \o
        Join(<< <<"S">>, Digits(ppid), Digits(p), Digits(p), Digits(0),
                Digits(0 - 1), Digits(4194560),
                Digits(f.minflt), Digits(f.cminflt), Digits(f.majflt),
                Digits(f.cmajflt), Digits(f.utime), Digits(f.stime),
                Digits(f.cutime), Digits(f.cstime), Digits(20) >>) \o
        <<"\n">>

\* content.find(c): the index (from 0) of the first c, or -1
Find(content, c) ==
    IF \E k \in 1..Len(content) : content[k] = c
        THEN (CHOOSE k \in 1..Len(content) :
                 /\ content[k] = c
                 /\ \A m \in 1..(k - 1) : content[m] # c) - 1
        ELSE 0 - 1

\* content.rfind(c): the index (from 0) of the last c, or -1
RFind(content, c) ==
    IF \E k \in 1..Len(content) : content[k] = c
        THEN (CHOOSE k \in 1..Len(content) :
                 /\ content[k] = c
                 /\ \A m \in (k + 1)..Len(content) : content[m] # c) - 1
        ELSE 0 - 1

\* content[k:] for k >= 0
SliceFrom(content, k) == SubSeq(content, k + 1, Len(content))

Whitespace == {" ", "\n", "\t"}

\* str.split(): the runs of characters that are not whitespace
RECURSIVE Split(_)
Split(content) ==
    IF content = <<>> THEN <<>>
    ELSE IF Head(content) \in Whitespace THEN Split(Tail(content))
    ELSE LET ends == {k \in 1..Len(content) : content[k] \in Whitespace}
             n == IF ends = {} THEN Len(content)
                  ELSE (CHOOSE k \in ends : \A m \in ends : k <= m) - 1
         IN  <<SubSeq(content, 1, n)>> \o
             Split(SubSeq(content, n + 1, Len(content)))

IsDigits(token) ==
    /\ token # <<>>
    /\ \A k \in 1..Len(token) : \E d \in 1..10 : DigitChars[d] = token[k]

RECURSIVE DigitsValue(_)
DigitsValue(token) ==
    IF token = <<>> THEN 0
    ELSE 10 * DigitsValue(SubSeq(token, 1, Len(token) - 1)) +
         (CHOOSE d \in 0..9 : DigitChars[d + 1] = token[Len(token)])

\* int(token): the number, or ValueError
ParseInt(token) ==
    IF IsDigits(token) THEN [raised |-> "", value |-> DigitsValue(token)]
    ELSE IF token # <<>> /\ Head(token) \in {"-", "+"} /\ IsDigits(Tail(token))
        THEN [raised |-> "",
              value |-> IF Head(token) = "-" THEN 0 - DigitsValue(Tail(token))
                        ELSE DigitsValue(Tail(token))]
        ELSE [raised |-> "ValueError", value |-> 0]

\* int(stats[k]), k from 0: IndexError past the end of the list
IntAt(stats, k) ==
    IF k + 1 > Len(stats) THEN [raised |-> "IndexError", value |-> 0]
    ELSE ParseInt(stats[k + 1])

\* (mutant) content.find(')')
Anchor_First(content) == Find(content, ")")

\* r_par_index = content.rfind(')') (lines 23 and 60)
Anchor(content) == RFind(content, ")")

\* stats = content[r_par_index + 2:].split()
Stats(content) == Split(SliceFrom(content, Anchor(content) + 2))

\* The fields get_manual_usage reads, by their index in stats (lines 66-74).
CounterIndex ==
    [minflt |-> 7, cminflt |-> 8, majflt |-> 9, cmajflt |-> 10,
     utime |-> 11, stime |-> 12, cutime |-> 13, cstime |-> 14]

\* A line is about to be parsed.
ParseStarts ==
    \E p \in ProcIds, comm \in Names :
      \E pp \in ({0} \cup ProcIds \cup PIDs) \ {p} :
        scanline = [at |-> "discover", pid |-> p, comm |-> comm,
                    ppid_written |-> pp, content |-> StatLine(p, comm, pp),
                    ppid |-> [raised |-> "", value |-> 0],
                    counters |-> [c \in DOMAIN CounterIndex |->
                                     [raised |-> "", value |-> 0]]]

\* Lines 19-27: get_children_recursive reads the parent of the candidate.
ParsePpid ==
    /\ scanline.at = "discover"
    /\ scanline' = [scanline EXCEPT
                       !.at = "usage",
                       !.ppid = IntAt(Stats(scanline.content), 1)]
    /\ UNCHANGED <<call, nap, monitor, kernel, scanner>>

\* Lines 58-75: get_manual_usage reads the counters of the member.
ParseCounters ==
    /\ scanline.at = "usage"
    /\ scanline' = [scanline EXCEPT
                       !.at = "parsed",
                       !.counters = [c \in DOMAIN CounterIndex |->
                           IntAt(Stats(scanline.content), CounterIndex[c])]]
    /\ UNCHANGED <<call, nap, monitor, kernel, scanner>>

----------------------------------------------------------------------------
(* The functions, each called once on inputs drawn from their domains. *)

InitUnits ==
    /\ DashboardNotRun
    /\ ScannerNotRun
    /\ \/ CallCustomSyscallStarts /\ nap = NoNap /\ scanline = NoLine
       \/ call = NoCall /\ NapStarts /\ scanline = NoLine
       \/ call = NoCall /\ nap = NoNap /\ ParseStarts

NextUnits ==
    \/ CallEntry
    \/ CallLookup
    \/ CallSyscall
    \/ NapSleep
    \/ ParsePpid
    \/ ParseCounters

SpecUnits == InitUnits /\ [][NextUnits]_vars

----------------------------------------------------------------------------
(* The monitoring state in the spec's words. *)

\* WatchSet: the roots being monitored.
WatchSet == ListSet(monitoring_pids)

\* The roots that have a History entry.
HistoryRoots == DOMAIN history

\* Idle: WatchSet is empty.  Monitoring: it is not.
Idle == monitoring_pids = <<>>

\* A poll cycle completes with the cleanup loop that follows its last query.
CycleCompletes == Cleanup

----------------------------------------------------------------------------
(* C1: after every completed poll cycle, for any PID list given to         *)
(* start_monitoring, a root is in WatchSet if and only if it has a History *)
(* entry.                                                                  *)
C1_WatchSetMatchesHistory ==
    [][CycleCompletes => (ListSet(monitoring_pids') = DOMAIN history')]_vars

(* C2: one failed aggregation of a watched root in a poll cycle is enough: *)
(* when that cycle completes the root is neither in WatchSet nor in        *)
(* History.                                                                *)
C2_FailedRootEvicted ==
    [][CycleCompletes =>
         \A p \in ListSet(pids_to_remove) :
             /\ p \notin ListSet(monitoring_pids')
             /\ p \notin DOMAIN history']_vars

(* C3: in every reachable state the History of every root holds at most    *)
(* 100 snapshots, in the order they were captured; a successful poll of a  *)
(* root leaves its History equal to the previous one with the new snapshot *)
(* appended, cut to the last 100 entries, and alters no other root's.      *)
Min(a, b) == IF a <= b THEN a ELSE b

HistoryWithinLimit ==
    \A p \in DOMAIN history :
        /\ Len(history[p]) <= 100
        /\ \A k \in 1..(Len(history[p]) - 1) :
               history[p][k].seq < history[p][k + 1].seq

SnapshotRecorded ==
    (Card /\ ~usage_data.error) =>
        LET p == monitoring_pids[i]
            old == IF p \in DOMAIN history THEN history[p] ELSE <<>>
            all == Append(old, usage_data)
            new == history'[p]
        IN  /\ DOMAIN history' = DOMAIN history \cup {p}
            /\ Len(new) = Min(Len(all), 100)
            /\ \A k \in 1..Len(new) : new[k] = all[Len(all) - Len(new) + k]
            /\ \A q \in DOMAIN history \ {p} : history'[q] = history[q]

C3_HistoryLast100 == []HistoryWithinLimit /\ [][SnapshotRecorded]_vars

\* A history that has been cut twice: 100 entries, the oldest two dropped.
C3_Witness ==
    \E p \in DOMAIN history :
        /\ Len(history[p]) = 100
        /\ history[p][1].seq = 3
        /\ history[p][100].seq = 102

(* C4: stop_monitoring (the stop command or the Stop / Clear button), in   *)
(* any state, leaves WatchSet and History empty; from then on no poll      *)
(* cycle runs and both stay empty until a start_monitoring with a          *)
(* non-empty PID list.                                                     *)
StopPlan == [type |-> "stop", pids |-> <<>>, interval |-> DefaultInterval]

stop_monitoring == SubmitPlan(StopPlan) \/ StopClear

start_monitoring(pids) ==
    \E v \in Intervals :
        SubmitPlan([type |-> "monitor", pids |-> pids, interval |-> v])

StartsMonitoring == \E pids \in PidLists \ {<<>>} : start_monitoring(pids)

Stopped == Idle /\ history = EmptyDict /\ pc \in {"run", "idle"}

C4_StopClearsAll ==
    /\ [][stop_monitoring => Stopped']_vars
    /\ [][(Stopped /\ ~StartsMonitoring) => Stopped']_vars

\* A stop command that found a session with recorded history of two roots;
\* the script has run again and shows the idle message.
C4_Witness ==
    /\ notice = "toast: monitoring stopped"
    /\ stopped_at.roots = {100, 200}
    /\ Stopped
    /\ pc = "idle"

(* C5: stop_monitoring served while a poll cycle is in progress leaves     *)
(* WatchSet and History empty, and no result of the cancelled cycle is     *)
(* applied afterwards: the result in flight and the removal list are       *)
(* dropped, and History stays empty until monitoring is started again.     *)
MidCycle == pc \in {"query", "card", "cleanup"}

NothingInFlight == usage_data = NoData /\ pids_to_remove = <<>> /\ i = 0

C5_StopMidCycle ==
    /\ [][(stop_monitoring /\ MidCycle) => (Stopped /\ NothingInFlight)']_vars
    /\ [][(Idle /\ history = EmptyDict /\ ~StartsMonitoring)
             => history' = EmptyDict]_vars

\* The Stop / Clear button pressed while the result of the second root's
\* query was in flight, the first root's snapshot already recorded.
C5_Witness ==
    /\ notice = "toast: dashboard cleared"
    /\ stopped_at.pc = "card"
    /\ stopped_at.roots = {100}
    /\ Stopped
    /\ pc = "idle"

(* C6: when in one poll cycle some roots fail and others succeed, after    *)
(* the cycle WatchSet is exactly the roots that did not fail, each of them *)
(* keeps its History with the new snapshot at its end, and the loop goes   *)
(* on to the next cycle.                                                   *)
FailedRoots == ListSet(pids_to_remove)

SucceededRoots == ListSet(monitoring_pids) \ FailedRoots

C6_FailureIsLocal ==
    [][(CycleCompletes /\ FailedRoots # {} /\ SucceededRoots # {}) =>
         /\ ListSet(monitoring_pids') = SucceededRoots
         /\ \A r \in SucceededRoots :
                /\ r \in DOMAIN history /\ r \in DOMAIN history'
                /\ history'[r] = history[r]
                /\ history[r][Len(history[r])].seq = nsnap[r]
         /\ pc' = "sleep"]_vars

(* C7: start_monitoring with an empty PID list leaves the system Idle and  *)
(* no History entry exists for any PID, until the next command.            *)
C7_EmptyStartIdle ==
    (notice = "error: no PIDs") =>
        /\ Idle
        /\ DOMAIN history = {}
        /\ pc \in {"run", "idle"}

\* An empty start served in a running session with recorded history.
C7_Witness ==
    /\ notice = "error: no PIDs"
    /\ stopped_at.roots = {100, 200}
    /\ pc = "idle"

(* C8: start_monitoring with an empty PID list is a no-op on the           *)
(* monitoring state: WatchSet, History and the interval are unchanged.     *)
C8_EmptyStartNoOp ==
    [][start_monitoring(<<>>) =>
         UNCHANGED <<monitoring_pids, history, update_interval>>]_vars

(* C9: start_monitoring with a non-empty PID list replaces the monitoring  *)
(* state: right after it WatchSet is the given PIDs, History is empty and  *)
(* the state is Monitoring.                                                *)
C9_StartReplaces ==
    [][\A pids \in PidLists \ {<<>>} :
          start_monitoring(pids) =>
              /\ monitoring_pids' = pids
              /\ history' = EmptyDict
              /\ ~Idle'
              /\ NothingInFlight']_vars

\* A start served in a session that had history of another root as well.
C9_Witness ==
    /\ notice = "toast: starting to monitor"
    /\ stopped_at.roots = {100, 200}
    /\ monitoring_pids = <<100>>
    /\ history = EmptyDict
    /\ pc = "run"

(* C10: when the last watched root is evicted at the end of a poll cycle   *)
(* the run restarts at once, without the wait, and shows the idle message; *)
(* no aggregation is called while WatchSet is empty; once every watched    *)
(* root has exited and no further click comes, the loop reaches Idle, and  *)
(* it stays there until a click.                                           *)
NoPollWhileIdle == Idle => pc \in {"run", "idle"}

LastRootEvicted ==
    (Cleanup /\ monitoring_pids' = <<>>) => pc' = "run"

IdleSignalled == (Run /\ Idle) => pc' = "idle"

StaysIdle == (pc = "idle" /\ ncmd' = ncmd) => pc' = "idle"

AllWatchedGone == ListSet(monitoring_pids) \subseteq gone

C10_LastEvictionGoesIdle ==
    /\ []NoPollWhileIdle
    /\ [][LastRootEvicted /\ IdleSignalled /\ StaysIdle]_vars
    /\ (AllWatchedGone /\ ncmd = limits.cmds) ~> (Idle /\ pc = "idle")

\* Idle reached by eviction: the last click started a session with a valid
\* interval, the watched roots have exited, and the idle message shows.
C10_Witness ==
    /\ notice = "toast: starting to monitor"
    /\ update_interval.num
    /\ gone = {100, 200}
    /\ Idle
    /\ history = EmptyDict
    /\ pc = "idle"

----------------------------------------------------------------------------
(* C11: when the privileged kernel facility is unavailable (the syscall    *)
(* function is not loaded, or the kernel does not provide the operation),  *)
(* the query of a live root still returns a usage snapshot, not an error,  *)
(* and no root is evicted that has not exited.                             *)
QueryReturns == Query /\ pc' = "card"

C11_UnavailableFallsBack ==
    /\ [][(QueryReturns /\ monitoring_pids[i] \notin gone)
             => ~usage_data'.error]_vars
    /\ [][CycleCompletes => \A p \in ListSet(pids_to_remove) : p \in gone]_vars

----------------------------------------------------------------------------
(* The scanner in the spec's words. *)

\* The call has returned its dict / has ended with an exception.
Returned == phase = "returned"
Raised == phase = "raised"

\* Tree discovery has returned: pids of line 43 is set.
Discovered == phase \in {"aggregate", "returned", "raised"}
Descendants == ListSet(Tail(scan_pids))

\* The processes of table t reachable from Root by parent-id chains.
Reachable(t) ==
    {p \in ProcIds \ {Root} :
        t[p].alive /\ Root \in Ancestors(t, p, Cardinality(ProcIds))}

\* A process whose stat file parses.
Parsable(t, p) == t[p].alive /\ t[p].form # "bad"

\* The descendants of Root that are reachable without reading a file that
\* does not parse: the process and every process between it and Root parse.
RECURSIVE ParsableChain(_, _, _)
ParsableChain(t, p, fuel) ==
    /\ fuel > 0
    /\ Parsable(t, p)
    /\ \/ t[p].ppid = Root
       \/ /\ t[p].ppid # 0
          /\ ParsableChain(t, t[p].ppid, fuel - 1)

ParsableDescendants(t) ==
    {p \in ProcIds \ {Root} : ParsableChain(t, p, Cardinality(ProcIds))}

\* The sum of f over the set S.
RECURSIVE SumOver(_, _)
SumOver(S, f) ==
    IF S = {} THEN 0
    ELSE LET x == CHOOSE x \in S : TRUE
         IN  f[x] + SumOver(S \ {x}, f)

\* The largest element of the set S of naturals, 0 for the empty set.
MaxOver(S) == IF S = {} THEN 0 ELSE CHOOSE x \in S : \A y \in S : y <= x

NoDuplicates(seq) ==
    \A a, b \in 1..Len(seq) : a # b => seq[a] # seq[b]

----------------------------------------------------------------------------
(* C12: the fast-path result (call_custom_syscall) and the fallback result *)
(* (get_manual_usage) have the same fields under the same names, so that   *)
(* the monitor loop can draw its card from either.                         *)
C12_SameShape ==
    Returned =>
        /\ DOMAIN result = DOMAIN SyscallUsage(Root, "N/A", ZeroRusage)
        /\ MetricKeys \subseteq DOMAIN result

(* C13: if the root itself is unreadable (it never existed, or it exited   *)
(* before any of its data was read), the fallback aggregation does not     *)
(* return a snapshot, even when descendants were read.                     *)
RootWasRead == InList(Root, reads.counted)

C13_UnreadableRootFails == Returned => RootWasRead

(* C14: in the fallback strategy a member whose files vanish during the    *)
(* scan, before its stat file is read or between its stat and its status   *)
(* file, is excluded from the aggregate: every member that contributed to  *)
(* the time and fault totals also had its status file read for the peak.   *)
C14_VanishedMemberExcluded ==
    Returned => ListSet(reads.counted) = ListSet(reads.peaked)

(* C15: in the fallback strategy a kernel-state file that does not parse   *)
(* makes the call skip that member only: the call does not raise, and tree *)
(* discovery still returns every descendant it can reach through files     *)
(* that parse, those listed after the malformed one included.              *)
C15_MalformedSkipped ==
    /\ ~Raised
    /\ Discovered => ParsableDescendants(proc) \subseteq Descendants

(* C16: on a process table that does not change during the call, the       *)
(* fallback aggregate over root and discovered descendants has user time = *)
(* sum of (utime + cutime) / clk_tck, system time = sum of (stime +        *)
(* cstime) / clk_tck, minor faults = sum of (minflt + cminflt), major      *)
(* faults = sum of (majflt + cmajflt), each live member counted once.      *)
LiveMembers == {p \in ListSet(scan_pids) : proc[p].alive}

UserTicks == [p \in ProcIds |-> StatFields(p).utime + StatFields(p).cutime]
SystemTicks == [p \in ProcIds |-> StatFields(p).stime + StatFields(p).cstime]
MinorFaults == [p \in ProcIds |-> StatFields(p).minflt + StatFields(p).cminflt]
MajorFaults == [p \in ProcIds |-> StatFields(p).majflt + StatFields(p).cmajflt]

C16_TotalsAreSums ==
    (Returned /\ nchurn = 0) =>
        /\ result.utime_sec = TrueDiv(SumOver(LiveMembers, UserTicks), clk_tck)
        /\ result.stime_sec = TrueDiv(SumOver(LiveMembers, SystemTicks), clk_tck)
        /\ result.minflt = SumOver(LiveMembers, MinorFaults)
        /\ result.majflt = SumOver(LiveMembers, MajorFaults)
        /\ NoDuplicates(reads.counted)
        /\ ListSet(reads.counted) = LiveMembers

\* A tree of depth 2 (1 -> 2 -> 3) has been aggregated.
C16_Witness ==
    /\ Returned
    /\ nchurn = 0
    /\ scan_pids = <<1, 2, 3>>
    /\ proc[3].ppid = 2
    /\ proc[2].ppid = 1
    /\ result.utime_sec = [num |-> 147, den |-> 10]

(* C17: the fallback aggregate's peak resident memory is the maximum, not  *)
(* the sum, of the VmHWM values of the root and the discovered descendants *)
(* that expose one, and 0 when none does.                                  *)
ExposedPeaks ==
    {VmHWM(p) : p \in {q \in LiveMembers : proc[q].form # "no_hwm"}}

C17_PeakIsMaximum ==
    (Returned /\ nchurn = 0) => result.maxrss_kb = MaxOver(ExposedPeaks)

\* Three members expose different peaks; the largest is neither the first
\* nor the last one read.
C17_Witness ==
    /\ Returned
    /\ nchurn = 0
    /\ scan_pids = <<1, 2, 3>>
    /\ \A p \in ProcIds : proc[p].form = "ok"
    /\ result.maxrss_kb = 500

(* C18: on a process table that does not change during the call,           *)
(* get_children_recursive returns exactly the processes reachable from     *)
(* root by parent-id chains of any depth, root excluded.                   *)
C18_DiscoversReachable ==
    (Discovered /\ nchurn = 0) => Descendants = Reachable(proc)

(* C19: tree discovery terminates and never raises while processes exit,   *)
(* fork or re-parent: a candidate whose stat file is gone when it is read  *)
(* is not a descendant and the scan goes on with the next candidate.       *)
CandidateGone ==
    /\ ScanCandidate
    /\ ~proc[Top.listing[Top.k]].alive

ScanGoesOn ==
    /\ phase' = "discover"
    /\ stack' = [stack EXCEPT ![Len(stack)] = NextCandidate(@)]

C19_DiscoveryTerminates ==
    /\ [][ScanCandidate => phase' = "discover"]_vars
    /\ [][CandidateGone => ScanGoesOn]_vars
    /\ <>Discovered

\* Discovery has returned although a listed candidate had exited and a
\* discovered child was re-parented away during the scan.
C19_Witness ==
    /\ Discovered
    /\ nchurn > 0
    /\ reads.vanished # {}
    /\ \E p \in Descendants : proc[p].alive /\ proc[p].ppid = 0

----------------------------------------------------------------------------
(* C20: a poll cycle completes even when the query of one root never       *)
(* returns: the script is never stuck inside a query, and a query that     *)
(* hangs ends as a failed one, its root noted for eviction, after which    *)
(* the cycle goes on to the remaining roots and to its cleanup.            *)
ScriptStep == Run \/ Query \/ Card \/ Cleanup \/ Sleep

QueryHangs == pc = "blocked"

C20_HungQueryCutOff ==
    /\ [](QueryHangs => ENABLED ScriptStep)
    /\ QueryHangs ~> (pc # "blocked")

----------------------------------------------------------------------------
(* C23: within a poll cycle no change is applied to WatchSet or History    *)
(* until every root of the cycle has been queried: the steps of a cycle    *)
(* before its cleanup leave both as they were when the cycle began.        *)
WithinCycle == Query \/ (Card /\ pc' = "query")

C23_AppliedAtCycleEnd ==
    [][WithinCycle => UNCHANGED <<monitoring_pids, history>>]_vars

(* C24: in every reachable state every root that has a History entry is in *)
(* WatchSet; in particular History is empty whenever WatchSet is empty.    *)
C24_HistoryWithinWatchSet == HistoryRoots \subseteq WatchSet

(* C25: the member list the fallback aggregation iterates over, [root] +   *)
(* get_children_recursive(root), never holds the same PID twice, so that   *)
(* no process's counters are added twice, also when a process is           *)
(* re-parented to another tree member or a PID is reused during the scan.  *)
C25_MembersOnce ==
    /\ Discovered => NoDuplicates(scan_pids)
    /\ NoDuplicates(reads.counted)

(* C26: a command that is neither monitor nor stop (a list plan, an error  *)
(* or unknown plan, no command text) leaves WatchSet, History and the      *)
(* polling interval unchanged: the session goes on with the same roots and *)
(* the same recorded history.                                              *)
OtherCommand ==
    \E plan \in Plans :
        /\ plan.type \notin {"monitor", "stop"}
        /\ SubmitPlan(plan)

C26_OtherCommandsKeepSession ==
    [][OtherCommand =>
         UNCHANGED <<monitoring_pids, history, update_interval>>]_vars

\* A list command served while two roots were monitored with recorded
\* history: both are still watched and their history is still there.
C26_Witness ==
    /\ ncmd = 2
    /\ notice = ""
    /\ process_list = "ps"
    /\ stopped_at.roots = {100, 200}
    /\ monitoring_pids = <<100, 200>>
    /\ DOMAIN history = {100, 200}

----------------------------------------------------------------------------
(* C21: the display-name lookup never decides the outcome of a call of     *)
(* call_custom_syscall.  The call returns whatever the lookup did; it      *)
(* returns an error exactly when the syscall function is not loaded or the *)
(* syscall returned < 0; on success its numeric fields are those of the    *)
(* struct the kernel filled, and the display name is "N/A" when the lookup *)
(* failed.                                                                 *)
CallReturned == call.at = "returned"

CallFailed == "error" \in DOMAIN call.out

LookupFailed == call.lookup # "name"

NumericFields ==
    {"user_time", "sys_time", "max_rss_kb", "minor_page_faults",
     "major_page_faults"}

C21_LookupNeverDecides ==
    /\ call.at # "raised"
    /\ CallReturned =>
        /\ CallFailed <=> (~call.loaded \/ call.answer.ret < 0)
        /\ ~CallFailed =>
            /\ call.out.pid = call.pid
            /\ call.out.user_time = Seconds(call.answer.usage.ru_utime)
            /\ call.out.sys_time = Seconds(call.answer.usage.ru_stime)
            /\ call.out.max_rss_kb = call.answer.usage.ru_maxrss
            /\ call.out.minor_page_faults = call.answer.usage.ru_minflt
            /\ call.out.major_page_faults = call.answer.usage.ru_majflt
            /\ LookupFailed => call.out.process_name = "N/A"
            /\ ~LookupFailed => call.out.process_name = ProcessName

\* A call whose lookup was refused returned the counters of the kernel.
C21_Witness ==
    /\ CallReturned
    /\ ~CallFailed
    /\ call.lookup = "AccessDenied"
    /\ call.out.process_name = "N/A"
    /\ call.out.minor_page_faults = 120
    /\ call.out.user_time = TrueDiv(3, 2)

----------------------------------------------------------------------------
(* C22: when the system is still monitoring after a cycle's cleanup, the   *)
(* wait before the next cycle is max(0.1 s, interval) for every numeric    *)
(* interval: the script waits, never less than the floor of 0.1 s, and     *)
(* exactly the interval when that is above the floor.                      *)
Floor == 1

Numeric(interval) == interval.num

AboveFloor(interval) ==
    IF Over(interval) THEN TRUE ELSE interval.tenths > Floor

C22_WaitIsClampedInterval ==
    (nap.at # "off" /\ nap.at # "sleep" /\ Numeric(nap.interval)) =>
        /\ nap.at = "slept"
        /\ nap.waited >= Floor
        /\ AboveFloor(nap.interval) => nap.waited = nap.interval.tenths

\* The same for the numbers time.sleep accepts: it holds.
C22_WaitOfAcceptedIntervals ==
    (nap.at # "off" /\ nap.at # "sleep" /\ Numeric(nap.interval)
        /\ ~Over(nap.interval)) =>
        /\ nap.at = "slept"
        /\ nap.waited >= Floor
        /\ AboveFloor(nap.interval) => nap.waited = nap.interval.tenths

----------------------------------------------------------------------------
(* C27: the parse of a stat line anchors on the last ')'.  For every       *)
(* process name, with spaces and parentheses in it, the parent id that     *)
(* get_children_recursive reads and the counters that get_manual_usage     *)
(* reads are the fields the kernel wrote after the name.                   *)
C27_AnchoredOnLastParen ==
    /\ scanline.at \in {"usage", "parsed"} =>
        scanline.ppid = [raised |-> "", value |-> scanline.ppid_written]
    /\ scanline.at = "parsed" =>
        \A c \in DOMAIN CounterIndex :
            scanline.counters[c] =
                [raised |-> "", value |-> StatFields(scanline.pid)[c]]

\* The line of a process named "a) " was parsed.
C27_Witness ==
    /\ scanline.at = "parsed"
    /\ scanline.comm = <<"a", ")", " ">>
    /\ scanline.ppid_written = 100
    /\ scanline.ppid.value = 100
    /\ scanline.counters.utime.value = 800

====
